---------------------------- MODULE Spec2Model ----------------------------
(***************************************************************************)
(* Model of the reconciliation engine of terraform-provider-contentful:    *)
(* the error translator (contentful.parseError), the content-type mapper   *)
(* (Validation.Draft, getValidation, Field.ToNative, Field.Import,         *)
(* ContentType.Draft, ContentType.Import, ContentType.DraftEditorInterface)*)
(* and the drift detector (Field.Equal, Items.Equal, ContentType.Equal,    *)
(* ContentType.EqualEditorInterface).                                      *)
(*                                                                         *)
(* Go values are modelled as follows.                                      *)
(*   - a pointer or an optional value: <<>> when nil, <<x>> when set;      *)
(*   - a terraform types.String/Bool/Float64/Int64: a record               *)
(*     [st, v] with st in {"null", "unknown", "known"}; v is the zero      *)
(*     value unless st = "known";                                          *)
(*   - a value of an interface type (model.FieldValidation, any): a record *)
(*     whose first field names the dynamic type;                           *)
(*   - the outcome of a call: a record with status "ok", "error" (an error *)
(*     was returned) or "panic" (the goroutine crashed).                   *)
(***************************************************************************)
EXTENDS Integers, Sequences, FiniteSets, TLC

VARIABLES
    err,     \* the error handed to parseError
    n,       \* the remote content type (model.ContentType)
    e,       \* the remote editor interface (<<>>: there is none)
    c,       \* the desired-state model (the ContentType struct)
    origin,  \* where c comes from: "zero", "declared", "imported", "stale"
    last     \* the last operation run and its outcome

vars == <<err, n, e, c, origin, last>>

None == <<>>
Some(x) == <<x>>
IsSet(p) == p # <<>>
Get(p) == p[1]

(***************************************************************************)
(* Bounds of the model.                                                    *)
(***************************************************************************)
MaxDetails == 2
MaxFields == 2
MaxValidations == 2
MaxSidebar == 2
\* the remote versions run up to MaxVersion
MaxVersion == 5

RECURSIVE SeqsUpTo(_, _)
SeqsUpTo(S, k) ==
    IF k = 0 THEN {<<>>}
    ELSE LET shorter == SeqsUpTo(S, k - 1)
         IN  shorter \cup {Append(s, x) : s \in {t \in shorter : Len(t) = k - 1}, x \in S}

SeqMap(Op(_), s) == [i \in 1..Len(s) |-> Op(s[i])]

(***************************************************************************)
(* terraform-plugin-framework attribute values.                            *)
(***************************************************************************)
StringNull == [st |-> "null", v |-> ""]
StringUnknown == [st |-> "unknown", v |-> ""]
StringValue(s) == [st |-> "known", v |-> s]
BoolNull == [st |-> "null", v |-> FALSE]
BoolValue(b) == [st |-> "known", v |-> b]
Float64Null == [st |-> "null", v |-> 0]
Float64Value(x) == [st |-> "known", v |-> x]
Int64Value(x) == [st |-> "known", v |-> x]

IsNull(t) == t.st = "null"
IsUnknown(t) == t.st = "unknown"
\* ValueString, ValueBool: the zero value unless known
ValueOf(t) == t.v
\* ValueStringPointer, ValueFloat64Pointer: nil only when null
ValuePointer(t) == IF IsNull(t) THEN None ELSE Some(t.v)
\* StringPointerValue, Float64PointerValue: null when the pointer is nil
StringPointerValue(p) == IF IsSet(p) THEN StringValue(Get(p)) ELSE StringNull
Float64PointerValue(p) == IF IsSet(p) THEN Float64Value(Get(p)) ELSE Float64Null

(***************************************************************************)
(* Error translator: contentful.parseError.                                *)
(***************************************************************************)
PStr(s) == [t |-> "string", s |-> s]
PInt(i) == [t |-> "int", i |-> i]

\* fmt of one path segment (a string or an int of a []interface{})
SegmentText(p) == IF p.t = "string" THEN p.s ELSE ToString(p.i)

RECURSIVE JoinDot(_)
JoinDot(path) ==
    IF Len(path) = 0 THEN ""
    ELSE IF Len(path) = 1 THEN SegmentText(path[1])
    ELSE SegmentText(path[1]) \o "." \o JoinDot(Tail(path))

Diagnostic(sev, text) == [Severity |-> sev, Summary |-> text]

\* the nested details of a structured error (Details may be nil)
DetailErrors(er) == IF IsSet(er.Details) THEN Get(er.Details).Errors ELSE <<>>

WarningOf(d) ==
    Diagnostic("Warning",
               d.Details \o " (" \o (IF IsSet(d.Path) THEN JoinDot(Get(d.Path)) ELSE "") \o ")")

\* C1 mutant: the terminal error is put before the warnings
parseError_ErrorFirst(er) ==
    IF er.kind = "nil" THEN <<>>
    ELSE IF er.kind = "ErrorResponse"
    THEN <<Diagnostic("Error", er.Message)>> \o SeqMap(WarningOf, DetailErrors(er))
    ELSE <<Diagnostic("Error", er.Message)>>

\* C2 mutant: an opaque error is reported as a warning
parseError_OpaqueWarning(er) ==
    IF er.kind = "nil" THEN <<>>
    ELSE IF er.kind = "ErrorResponse"
    THEN SeqMap(WarningOf, DetailErrors(er)) \o <<Diagnostic("Error", er.Message)>>
    ELSE <<Diagnostic("Warning", er.Message)>>

\* C3 mutant: nil is reported as an error with an empty text
parseError_NilAsError(er) ==
    IF er.kind = "nil" THEN <<Diagnostic("Error", "")>>
    ELSE IF er.kind = "ErrorResponse"
    THEN SeqMap(WarningOf, DetailErrors(er)) \o <<Diagnostic("Error", er.Message)>>
    ELSE <<Diagnostic("Error", er.Message)>>

parseError(er) ==
    IF er.kind = "nil" THEN <<>>
    ELSE IF er.kind = "ErrorResponse"
    THEN SeqMap(WarningOf, DetailErrors(er)) \o <<Diagnostic("Error", er.Message)>>
    ELSE <<Diagnostic("Error", er.Message)>>

\* the inputs of the error translator
NilError == [kind |-> "nil"]
OpaqueErrors == {[kind |-> "opaque", Message |-> m] : m \in {"regular error", "timeout"}}
Paths ==
    { None,
      Some(<<PStr("path"), PStr("to"), PStr("error")>>),
      Some(<<PStr("a"), PStr("b")>>),
      Some(<<PStr("fields"), PInt(0)>>) }
ErrorDetailSet == {[Path |-> p, Details |-> d] : p \in Paths, d \in {"error detail", "detail2"}}
ErrorResponses ==
    {[kind |-> "ErrorResponse", Message |-> m, Details |-> d] :
        m \in {"error message", "Validation error"},
        d \in {None} \cup {Some([Errors |-> s]) : s \in SeqsUpTo(ErrorDetailSet, MaxDetails)}}
ErrorInputs == {NilError} \cup OpaqueErrors \cup ErrorResponses

(***************************************************************************)
(* Outcomes of a call.                                                     *)
(***************************************************************************)
Ok(x) == [status |-> "ok", val |-> x]
Error(kind) == [status |-> "error", err |-> kind]
Panic(what) == [status |-> "panic", err |-> what]

(***************************************************************************)
(* Values of type any (default values, predefined values).                 *)
(***************************************************************************)
AnyString(s) == [t |-> "string", s |-> s]
AnyBool(b) == [t |-> "bool", b |-> b]
AnyNumber(x) == [t |-> "float64", x |-> x]

(***************************************************************************)
(* Remote validations: the concrete types behind model.FieldValidation.    *)
(***************************************************************************)
MinMax(min, max) == [Min |-> min, Max |-> max]
FieldValidationUnique(u) == [type |-> "FieldValidationUnique", Unique |-> u]
FieldValidationSize(mm, msg) ==
    [type |-> "FieldValidationSize", Size |-> mm, ErrorMessage |-> msg]
FieldValidationRange(mm, msg) ==
    [type |-> "FieldValidationRange", Range |-> mm, ErrorMessage |-> msg]
FieldValidationFileSize(mm) == [type |-> "FieldValidationFileSize", Size |-> mm]
FieldValidationRegex(pattern, msg) ==
    [type |-> "FieldValidationRegex", Regex |-> [Pattern |-> pattern], ErrorMessage |-> msg]
FieldValidationLink(l) == [type |-> "FieldValidationLink", LinkContentType |-> l]
FieldValidationMimeType(l, msg) ==
    [type |-> "FieldValidationMimeType", MimeTypes |-> l, ErrorMessage |-> msg]
FieldValidationPredefinedValues(l) ==
    [type |-> "FieldValidationPredefinedValues", In |-> l]
FieldValidationEnabledMarks(l, msg) ==
    [type |-> "FieldValidationEnabledMarks", Marks |-> l, ErrorMessage |-> msg]
FieldValidationEnabledNodeTypes(l, msg) ==
    [type |-> "FieldValidationEnabledNodeTypes", NodeTypes |-> l, ErrorMessage |-> msg]
\* a validation type of the client library that getValidation does not know
FieldValidationDate == [type |-> "FieldValidationDate"]
\* the nil interface value
NilValidation == [type |-> "nil"]

(***************************************************************************)
(* Desired-state validation rule: the Validation struct. Its zero value    *)
(* has Unique and Message null, the pointers nil and the slices empty.     *)
(***************************************************************************)
Validation ==
    [ Unique |-> BoolNull, Size |-> None, Range |-> None, AssetFileSize |-> None,
      Regexp |-> None, LinkContentType |-> <<>>, LinkMimetypeGroup |-> <<>>,
      In |-> <<>>, EnabledMarks |-> <<>>, EnabledNodeTypes |-> <<>>,
      Message |-> StringNull ]

Size(min, max) == [Min |-> min, Max |-> max]
Regexp(pattern) == [Pattern |-> pattern]

SizeMinMax(s) == MinMax(ValuePointer(s.Min), ValuePointer(s.Max))

\* C13 mutant: the uniqueness flag is tested for its value, not for being set
ValidationDraft_UniqueByValue(v) ==
    IF ValueOf(v.Unique)
    THEN FieldValidationUnique(ValueOf(v.Unique))
    ELSE IF IsSet(v.Size)
    THEN FieldValidationSize(SizeMinMax(Get(v.Size)), ValuePointer(v.Message))
    ELSE IF IsSet(v.Range)
    THEN FieldValidationRange(SizeMinMax(Get(v.Range)), ValueOf(v.Message))
    ELSE IF IsSet(v.AssetFileSize)
    THEN FieldValidationFileSize(SizeMinMax(Get(v.AssetFileSize)))
    ELSE IF IsSet(v.Regexp)
    THEN FieldValidationRegex(ValueOf(Get(v.Regexp).Pattern), ValuePointer(v.Message))
    ELSE IF Len(v.LinkContentType) > 0
    THEN FieldValidationLink(SeqMap(ValueOf, v.LinkContentType))
    ELSE IF Len(v.LinkMimetypeGroup) > 0
    THEN FieldValidationMimeType(SeqMap(ValueOf, v.LinkMimetypeGroup), ValuePointer(v.Message))
    ELSE IF Len(v.In) > 0
    THEN FieldValidationPredefinedValues(
             SeqMap(LAMBDA t : AnyString(ValueOf(t)), v.In))
    ELSE IF Len(v.EnabledMarks) > 0
    THEN FieldValidationEnabledMarks(SeqMap(ValueOf, v.EnabledMarks), ValuePointer(v.Message))
    ELSE IF Len(v.EnabledNodeTypes) > 0
    THEN FieldValidationEnabledNodeTypes(SeqMap(ValueOf, v.EnabledNodeTypes),
                                         ValuePointer(v.Message))
    ELSE NilValidation

\* Validation.Draft: the first populated sub-structure decides the variant;
\* a rule with none populated drafts to the nil interface value, without error.
ValidationDraft(v) ==
    IF ~IsUnknown(v.Unique) /\ ~IsNull(v.Unique)
    THEN FieldValidationUnique(ValueOf(v.Unique))
    ELSE IF IsSet(v.Size)
    THEN FieldValidationSize(SizeMinMax(Get(v.Size)), ValuePointer(v.Message))
    ELSE IF IsSet(v.Range)
    THEN FieldValidationRange(SizeMinMax(Get(v.Range)), ValueOf(v.Message))
    ELSE IF IsSet(v.AssetFileSize)
    THEN FieldValidationFileSize(SizeMinMax(Get(v.AssetFileSize)))
    ELSE IF IsSet(v.Regexp)
    THEN FieldValidationRegex(ValueOf(Get(v.Regexp).Pattern), ValuePointer(v.Message))
    ELSE IF Len(v.LinkContentType) > 0
    THEN FieldValidationLink(SeqMap(ValueOf, v.LinkContentType))
    ELSE IF Len(v.LinkMimetypeGroup) > 0
    THEN FieldValidationMimeType(SeqMap(ValueOf, v.LinkMimetypeGroup), ValuePointer(v.Message))
    ELSE IF Len(v.In) > 0
    THEN FieldValidationPredefinedValues(
             SeqMap(LAMBDA t : AnyString(ValueOf(t)), v.In))
    ELSE IF Len(v.EnabledMarks) > 0
    THEN FieldValidationEnabledMarks(SeqMap(ValueOf, v.EnabledMarks), ValuePointer(v.Message))
    ELSE IF Len(v.EnabledNodeTypes) > 0
    THEN FieldValidationEnabledNodeTypes(SeqMap(ValueOf, v.EnabledNodeTypes),
                                         ValuePointer(v.Message))
    ELSE NilValidation

DraftValidations(vs) == SeqMap(ValidationDraft, vs)

SizeOf(mm) == Size(Float64PointerValue(mm.Min), Float64PointerValue(mm.Max))

StringValues(l) == SeqMap(StringValue, l)

\* getValidation: the rule of one remote validation. The type assertion
\* t.(string) on a predefined value that is no string panics, and so does
\* naming the type of a nil validation; any other type is an error.
getValidation(cfVal) ==
    IF cfVal.type = "FieldValidationPredefinedValues"
    THEN IF \A i \in 1..Len(cfVal.In) : cfVal.In[i].t = "string"
         THEN Ok([Validation EXCEPT !.In = SeqMap(LAMBDA t : StringValue(t.s), cfVal.In)])
         ELSE Panic("interface conversion")
    ELSE IF cfVal.type = "FieldValidationUnique"
    THEN Ok([Validation EXCEPT !.Unique = BoolValue(cfVal.Unique)])
    ELSE IF cfVal.type = "FieldValidationRegex"
    THEN Ok([Validation EXCEPT !.Regexp = Some(Regexp(StringValue(cfVal.Regex.Pattern))),
                               !.Message = StringPointerValue(cfVal.ErrorMessage)])
    ELSE IF cfVal.type = "FieldValidationSize"
    THEN Ok([Validation EXCEPT !.Size = Some(SizeOf(cfVal.Size))])
    ELSE IF cfVal.type = "FieldValidationLink"
    THEN Ok([Validation EXCEPT !.LinkContentType = StringValues(cfVal.LinkContentType)])
    ELSE IF cfVal.type = "FieldValidationMimeType"
    THEN Ok([Validation EXCEPT !.LinkMimetypeGroup = StringValues(cfVal.MimeTypes),
                               !.Message = StringPointerValue(cfVal.ErrorMessage)])
    ELSE IF cfVal.type = "FieldValidationRange"
    THEN Ok([Validation EXCEPT !.Range = Some(SizeOf(cfVal.Range))])
    ELSE IF cfVal.type = "FieldValidationEnabledNodeTypes"
    THEN Ok([Validation EXCEPT !.EnabledNodeTypes = StringValues(cfVal.NodeTypes),
                               !.Message = StringPointerValue(cfVal.ErrorMessage)])
    ELSE IF cfVal.type = "FieldValidationEnabledMarks"
    THEN Ok([Validation EXCEPT !.EnabledMarks = StringValues(cfVal.Marks),
                               !.Message = StringPointerValue(cfVal.ErrorMessage)])
    ELSE IF cfVal.type = "FieldValidationFileSize"
    THEN Ok([Validation EXCEPT !.AssetFileSize = Some(SizeOf(cfVal.Size))])
    ELSE IF cfVal.type = "nil"
    THEN Panic("reflect.TypeOf(nil).String()")
    ELSE Error("UnsupportedVariant")

\* C7 mutant: the error of getValidation is dropped and the rule it could not
\* read is imported as the empty rule
getValidations_ErrorDropped(contentfulValidations) ==
    Ok(SeqMap(LAMBDA v : IF getValidation(v).status = "ok" THEN getValidation(v).val
                         ELSE Validation,
              contentfulValidations))

\* getValidations: the rules of a remote validation list, in order; the
\* first failure ends the loop and no list is returned.
RECURSIVE getValidations(_)
getValidations(contentfulValidations) ==
    IF Len(contentfulValidations) = 0 THEN Ok(<<>>)
    ELSE LET val == getValidation(Head(contentfulValidations))
         IN  IF val.status # "ok" THEN val
             ELSE LET rest == getValidations(Tail(contentfulValidations))
                  IN  IF rest.status # "ok" THEN rest
                      ELSE Ok(<<val.val>> \o rest.val)

(***************************************************************************)
(* Helpers of the repository and of the libraries it calls.                *)
(***************************************************************************)
\* pie.FindFirstUsing: the first index whose element satisfies P; 0 stands
\* for Go's -1 (sequences are indexed from 1 here)
FindFirstUsing(s, P(_)) ==
    IF \E i \in 1..Len(s) : P(s[i])
    THEN CHOOSE i \in 1..Len(s) : P(s[i]) /\ \A j \in 1..(i - 1) : ~P(s[j])
    ELSE 0

\* pie.Filter
Filter(s, P(_)) == SelectSeq(s, P)

\* utils.FromOptionalString: an empty remote string is an unset attribute
FromOptionalString(s) == IF s = "" THEN StringNull ELSE StringValue(s)

\* utils.CompareStringPointer: an attribute against an optional remote string
CompareStringPointer(tf, p) ==
    IF IsSet(p) THEN ~IsNull(tf) /\ ValueOf(tf) = Get(p) ELSE IsNull(tf)

\* types.BoolPointerValue, types.Int64PointerValue
PointerValue(p, zero) ==
    IF IsSet(p) THEN [st |-> "known", v |-> Get(p)] ELSE [st |-> "null", v |-> zero]

(***************************************************************************)
(* Go maps: <<>> is the nil map, <<f>> a map with the entries of f.        *)
(***************************************************************************)
EmptyMap == [k \in {} |-> 0]
Entries(m) == IF IsSet(m) THEN Get(m) ELSE EmptyMap
Merge(f, g) == [k \in DOMAIN f \cup DOMAIN g |-> IF k \in DOMAIN g THEN g[k] ELSE f[k]]

\* types.Map
MapNull == [st |-> "null", elems |-> EmptyMap]
MapValue(f) == [st |-> "known", elems |-> f]

(***************************************************************************)
(* DefaultValue.Draft: the string entries, then the boolean entries, in    *)
(* one map that is never nil.                                              *)
(***************************************************************************)
DefaultValueDraft(d) ==
    LET strings == IF ~IsNull(d.String) /\ ~IsUnknown(d.String)
                   THEN [k \in DOMAIN d.String.elems |-> AnyString(ValueOf(d.String.elems[k]))]
                   ELSE EmptyMap
        bools   == IF ~IsNull(d.Bool) /\ ~IsUnknown(d.Bool)
                   THEN [k \in DOMAIN d.Bool.elems |-> AnyBool(ValueOf(d.Bool.elems[k]))]
                   ELSE EmptyMap
    IN  Merge(strings, bools)

(***************************************************************************)
(* Control settings: Settings.Import and Settings.Draft.                   *)
(***************************************************************************)
SettingsImport(settings) ==
    [ HelpText        |-> StringPointerValue(settings.HelpText),
      TrueLabel       |-> StringPointerValue(settings.TrueLabel),
      FalseLabel      |-> StringPointerValue(settings.FalseLabel),
      Stars           |-> PointerValue(settings.Stars, 0),
      Format          |-> StringPointerValue(settings.Format),
      TimeFormat      |-> StringPointerValue(settings.AMPM),
      BulkEditing     |-> PointerValue(settings.BulkEditing, FALSE),
      TrackingFieldId |-> StringPointerValue(settings.TrackingFieldId) ]

SettingsDraft(s) ==
    [ HelpText        |-> ValuePointer(s.HelpText),
      TrueLabel       |-> ValuePointer(s.TrueLabel),
      FalseLabel      |-> ValuePointer(s.FalseLabel),
      Stars           |-> ValuePointer(s.Stars),
      Format          |-> ValuePointer(s.Format),
      AMPM            |-> ValuePointer(s.TimeFormat),
      BulkEditing     |-> ValuePointer(s.BulkEditing),
      TrackingFieldId |-> ValuePointer(s.TrackingFieldId) ]

(***************************************************************************)
(* Items.ToNative, Items.Equal.                                            *)
(***************************************************************************)
ItemsToNative(i) ==
    [ Type        |-> ValueOf(i.Type),
      Validations |-> DraftValidations(i.Validations),
      LinkType    |-> ValuePointer(i.LinkType) ]

\* the drafted rules against the remote ones, index by index (reflect.DeepEqual)
\* C14 mutant: the rules are compared as sets
ValidationsEqual_AsSets(vs, remote) ==
    /\ Len(vs) = Len(remote)
    /\ {ValidationDraft(vs[idx]) : idx \in 1..Len(vs)}
           = {remote[idx] : idx \in 1..Len(remote)}

ValidationsEqual(vs, remote) ==
    /\ Len(vs) = Len(remote)
    /\ \A idx \in 1..Len(vs) : ValidationDraft(vs[idx]) = remote[idx]

\* i: the Items struct; ni: the remote item spec, <<>> when nil
ItemsEqual(i, ni) ==
    /\ IsSet(ni)
    /\ ValueOf(i.Type) = Get(ni).Type
    /\ CompareStringPointer(i.LinkType, Get(ni).LinkType)
    /\ ValidationsEqual(i.Validations, Get(ni).Validations)

(***************************************************************************)
(* Field.Equal, Field.ToNative.                                            *)
(***************************************************************************)
FieldEqual(f, nf) ==
    /\ nf.Type = ValueOf(f.Type)
    /\ nf.ID = ValueOf(f.Id)
    /\ nf.Name = ValueOf(f.Name)
    /\ nf.LinkType = ValueOf(f.LinkType)
    /\ nf.Required = ValueOf(f.Required)
    /\ nf.Omitted = ValueOf(f.Omitted)
    /\ nf.Disabled = ValueOf(f.Disabled)
    /\ nf.Localized = ValueOf(f.Localized)
    /\ ~(~IsSet(f.Items) /\ IsSet(nf.Items))
    /\ ~(IsSet(f.Items) /\ ~ItemsEqual(Get(f.Items), nf.Items))
    /\ ValidationsEqual(f.Validations, nf.Validations)
    /\ ~(IsSet(f.DefaultValue)
         /\ Some(DefaultValueDraft(Get(f.DefaultValue))) # nf.DefaultValue)

\* Field.ToNative: f.Items.ToNative() dereferences f.Items, which is nil when
\* an array field declares no item spec
FieldToNative(f) ==
    LET contentfulField ==
            [ ID           |-> ValueOf(f.Id),
              Name         |-> ValueOf(f.Name),
              Type         |-> ValueOf(f.Type),
              Localized    |-> ValueOf(f.Localized),
              Required     |-> ValueOf(f.Required),
              Disabled     |-> ValueOf(f.Disabled),
              Omitted      |-> ValueOf(f.Omitted),
              Validations  |-> DraftValidations(f.Validations),
              LinkType     |-> IF ~IsNull(f.LinkType) /\ ~IsUnknown(f.LinkType)
                               THEN ValueOf(f.LinkType) ELSE "",
              Items        |-> IF ValueOf(f.Type) = "Array" /\ IsSet(f.Items)
                               THEN Some(ItemsToNative(Get(f.Items))) ELSE None,
              DefaultValue |-> IF IsSet(f.DefaultValue)
                               THEN Some(DefaultValueDraft(Get(f.DefaultValue)))
                               ELSE None ]
    IN  IF ValueOf(f.Type) = "Array" /\ ~IsSet(f.Items)
        THEN Panic("nil pointer dereference")
        ELSE Ok(contentfulField)

(***************************************************************************)
(* Field.Import. Go visits the entries of a map in an order that changes   *)
(* from run to run; first is the key getTypeOfMap happens to visit first.  *)
(***************************************************************************)
getTypeOfMap(mapValues, first) ==
    IF DOMAIN Entries(mapValues) = {} THEN Ok(None)
    ELSE LET v == Entries(mapValues)[first]
         IN  IF v.t = "string" THEN Ok(Some("string"))
             ELSE IF v.t = "bool" THEN Ok(Some("bool"))
             ELSE Error("UnsupportedDefaultValueType")

\* the DefaultValue of an imported field, once the map's type is taken to be
\* ty: each value is type-asserted to it, which panics on any other value
ImportDefaultValue(mapValues, ty) ==
    LET m == Entries(mapValues)
    IN  IF \E k \in DOMAIN m : m[k].t # ty
        THEN Panic("interface conversion")
        ELSE IF ty = "string"
        THEN Ok(Some([ Bool   |-> MapNull,
                       String |-> MapValue([k \in DOMAIN m |-> StringValue(m[k].s)]) ]))
        ELSE Ok(Some([ Bool   |-> MapValue([k \in DOMAIN m |-> BoolValue(m[k].b)]),
                       String |-> MapNull ]))

\* the Control of an imported field: that of the first control entry with the
\* field's id, when it names a widget
ImportControl(nf, controls) ==
    LET idx == FindFirstUsing(controls, LAMBDA control : nf.ID = control.FieldID)
    IN  IF idx # 0 /\ IsSet(controls[idx].WidgetID)
        THEN Some([ WidgetId        |-> StringPointerValue(controls[idx].WidgetID),
                    WidgetNamespace |-> StringPointerValue(controls[idx].WidgetNameSpace),
                    Settings        |-> IF IsSet(controls[idx].Settings)
                                        THEN Some(SettingsImport(Get(controls[idx].Settings)))
                                        ELSE None ])
        ELSE None

\* nf: the remote field; controls: the editor interface's controls
FieldImport(nf, controls, first) ==
    LET defaultValueType == getTypeOfMap(nf.DefaultValue, first)
        defaultValue ==
            IF defaultValueType.status = "ok" /\ IsSet(defaultValueType.val)
            THEN ImportDefaultValue(nf.DefaultValue, Get(defaultValueType.val))
            ELSE Ok(None)
        validations == getValidations(nf.Validations)
        itemValidations ==
            IF IsSet(nf.Items) THEN getValidations(Get(nf.Items).Validations) ELSE Ok(<<>>)
    IN  IF defaultValueType.status # "ok" THEN defaultValueType
        ELSE IF defaultValue.status # "ok" THEN defaultValue
        ELSE IF validations.status # "ok" THEN validations
        ELSE IF nf.Type = "Array" /\ ~IsSet(nf.Items) THEN Panic("nil pointer dereference")
        ELSE IF nf.Type = "Array" /\ itemValidations.status # "ok" THEN itemValidations
        ELSE Ok([ Id           |-> StringValue(nf.ID),
                  Name         |-> StringValue(nf.Name),
                  Type         |-> StringValue(nf.Type),
                  LinkType     |-> FromOptionalString(nf.LinkType),
                  Required     |-> BoolValue(nf.Required),
                  Omitted      |-> BoolValue(nf.Omitted),
                  Localized    |-> BoolValue(nf.Localized),
                  Disabled     |-> BoolValue(nf.Disabled),
                  DefaultValue |-> defaultValue.val,
                  Validations  |-> validations.val,
                  Items        |-> IF nf.Type = "Array"
                                   THEN Some([ Type |-> StringValue(Get(nf.Items).Type),
                                               LinkType |->
                                                   StringPointerValue(Get(nf.Items).LinkType),
                                               Validations |-> itemValidations.val ])
                                   ELSE None,
                  Control      |-> ImportControl(nf, controls) ])

(***************************************************************************)
(* Sidebar settings as JSON text.                                          *)
(***************************************************************************)
\* the keys a settings object may hold, in the order json.Marshal writes them
SettingKeys == <<"a", "b">>
SettingValues == {"x", "y"}

RECURSIVE MarshalMembers(_, _)
MarshalMembers(m, keys) ==
    IF Len(keys) = 0 THEN ""
    ELSE LET rest == MarshalMembers(m, Tail(keys))
             k    == Head(keys)
         IN  IF k \notin DOMAIN m THEN rest
             ELSE "\"" \o k \o "\":\"" \o m[k] \o "\""
                  \o (IF rest = "" THEN "" ELSE "," \o rest)

\* json.Marshal of a map[string]string: an object with the keys sorted
Marshal(m) == "{" \o MarshalMembers(m, SettingKeys) \o "}"

SettingMaps ==
    UNION {[ks -> SettingValues] : ks \in SUBSET {SettingKeys[i] : i \in 1..Len(SettingKeys)}}

\* json.Unmarshal(text, target), as jsontypes.Normalized.Unmarshal calls it with
\* the target it is given: a target that is not a pointer is refused
\* (InvalidUnmarshalError) and nothing is decoded; so is a null value, and a text
\* that is no JSON object of strings. The result is the target after the call.
Unmarshal(settings, target, isPointer) ==
    IF ~isPointer \/ IsNull(settings) \/ IsUnknown(settings) THEN target
    ELSE IF \E m \in SettingMaps : Marshal(m) = ValueOf(settings)
    THEN Merge(target, CHOOSE m \in SettingMaps : Marshal(m) = ValueOf(settings))
    ELSE target

(***************************************************************************)
(* ContentType.Draft.                                                      *)
(***************************************************************************)
\* the result of the first call that did not succeed, or Ok of all values
Collect(results) ==
    LET bad == FindFirstUsing(results, LAMBDA r : r.status # "ok")
    IN  IF bad # 0 THEN results[bad] ELSE Ok(SeqMap(LAMBDA r : r.val, results))

ContentTypeDraft(ct) ==
    LET fields == Collect(SeqMap(FieldToNative, ct.Fields))
    IN  IF fields.status # "ok" THEN fields
        ELSE Ok([ Name         |-> ValueOf(ct.Name),
                  DisplayField |-> ValueOf(ct.DisplayField),
                  Fields       |-> fields.val,
                  Sys          |-> IF ~IsUnknown(ct.ID) \/ ~IsNull(ct.ID)
                                   THEN Some([ID |-> ValueOf(ct.ID), Version |-> 0])
                                   ELSE None,
                  Description  |-> IF ~IsNull(ct.Description) /\ ~IsUnknown(ct.Description)
                                   THEN ValuePointer(ct.Description)
                                   ELSE None ])

(***************************************************************************)
(* ContentType.Import. The receiver is assigned as the code goes: when a   *)
(* field fails, the header attributes are already those of the remote      *)
(* model, while Fields and Sidebar are not touched.                        *)
(***************************************************************************)
\* C16 mutant: a widget without settings is imported with null settings
ImportSidebar_NullSettings(t) ==
    [ WidgetId        |-> StringValue(t.WidgetID),
      WidgetNamespace |-> StringValue(t.WidgetNameSpace),
      Settings        |-> IF IsSet(t.Settings)
                          THEN StringValue(Marshal(Get(t.Settings)))
                          ELSE StringNull,
      Disabled        |-> BoolValue(t.Disabled) ]

ImportSidebar(t) ==
    [ WidgetId        |-> StringValue(t.WidgetID),
      WidgetNamespace |-> StringValue(t.WidgetNameSpace),
      Settings        |-> IF IsSet(t.Settings)
                          THEN StringValue(Marshal(Get(t.Settings)))
                          ELSE StringValue("{}"),
      Disabled        |-> BoolValue(t.Disabled) ]

\* ct: the receiver; nct: the remote model; ei: the editor interface or <<>>;
\* firsts[i]: the default-value key of field i that getTypeOfMap visits first
ContentTypeImport(ct, nct, ei, firsts) ==
    LET controls == IF IsSet(ei) THEN Get(ei).Controls ELSE <<>>
        sidebar  == IF IsSet(ei) THEN Get(ei).SideBar ELSE <<>>
        header   == [ct EXCEPT
                        !.ID = StringValue(Get(nct.Sys).ID),
                        !.Version = Int64Value(Get(nct.Sys).Version),
                        !.Description = StringPointerValue(nct.Description),
                        !.Name = StringValue(nct.Name),
                        !.DisplayField = StringValue(nct.DisplayField),
                        !.VersionControls =
                            Int64Value(IF IsSet(ei) THEN Get(ei).Sys.Version ELSE 0)]
        fields   == Collect([i \in 1..Len(nct.Fields) |->
                                FieldImport(nct.Fields[i], controls, firsts[i])])
    IN  IF fields.status # "ok"
        THEN [status |-> fields.status, err |-> fields.err, c |-> header]
        ELSE [status |-> "ok", err |-> "",
              c |-> [header EXCEPT !.Sidebar = SeqMap(ImportSidebar, sidebar),
                                   !.Fields = fields.val]]

(***************************************************************************)
(* ContentType.Equal.                                                      *)
(***************************************************************************)
\* C5 mutant: a field found under its id counts wherever it sits
ContentTypeEqual_NoPosition(ct, nct) ==
    /\ CompareStringPointer(ct.Description, nct.Description)
    /\ ValueOf(ct.Name) = nct.Name
    /\ ValueOf(ct.DisplayField) = nct.DisplayField
    /\ Len(ct.Fields) = Len(nct.Fields)
    /\ \A idxOrg \in 1..Len(ct.Fields) :
          LET field == ct.Fields[idxOrg]
              idx == FindFirstUsing(nct.Fields, LAMBDA f : f.ID = ValueOf(field.Id))
          IN  /\ idx # 0
              /\ FieldEqual(field, nct.Fields[idx])

ContentTypeEqual(ct, nct) ==
    /\ CompareStringPointer(ct.Description, nct.Description)
    /\ ValueOf(ct.Name) = nct.Name
    /\ ValueOf(ct.DisplayField) = nct.DisplayField
    /\ Len(ct.Fields) = Len(nct.Fields)
    /\ \A idxOrg \in 1..Len(ct.Fields) :
          LET field == ct.Fields[idxOrg]
              idx == FindFirstUsing(nct.Fields, LAMBDA f : f.ID = ValueOf(field.Id))
          IN  /\ idx # 0
              /\ FieldEqual(field, nct.Fields[idx])
              /\ idxOrg = idx

(***************************************************************************)
(* ContentType.EqualEditorInterface. The loops return at the first check   *)
(* that fails; *control.WidgetID and *control.WidgetNameSpace are          *)
(* dereferenced without a nil check.                                       *)
(***************************************************************************)
\* the result of the first check that is not Ok(TRUE), or Ok(TRUE)
FirstFailure(results) ==
    LET bad == FindFirstUsing(results, LAMBDA r : r # Ok(TRUE))
    IN  IF bad # 0 THEN results[bad] ELSE Ok(TRUE)

EqualControl(field, filteredControls) ==
    LET idx == FindFirstUsing(filteredControls, LAMBDA t : t.FieldID = ValueOf(field.Id))
        control == filteredControls[idx]
        settings == Get(field.Control).Settings
    IN  IF idx = 0 THEN Ok(FALSE)
        ELSE IF ~IsSet(control.WidgetID) THEN Panic("nil pointer dereference")
        ELSE IF ValueOf(Get(field.Control).WidgetId) # Get(control.WidgetID) THEN Ok(FALSE)
        ELSE IF ~IsSet(control.WidgetNameSpace) THEN Panic("nil pointer dereference")
        ELSE IF ValueOf(Get(field.Control).WidgetNamespace) # Get(control.WidgetNameSpace)
        THEN Ok(FALSE)
        ELSE IF ~IsSet(settings) /\ IsSet(control.Settings) THEN Ok(FALSE)
        ELSE IF IsSet(settings) /\ Some(SettingsDraft(Get(settings))) # control.Settings
        THEN Ok(FALSE)
        ELSE Ok(TRUE)

EqualSidebar(ct, ei, idxOrg) ==
    LET s == ct.Sidebar[idxOrg]
        idx == FindFirstUsing(ei.SideBar, LAMBDA t : t.WidgetID = ValueOf(s.WidgetId))
        sidebar == ei.SideBar[idx]
        \* a := make(map[string]string); s.Settings.Unmarshal(a)
        a == Unmarshal(s.Settings, EmptyMap, FALSE)
    IN  Ok(/\ idx # 0
           /\ idxOrg = idx
           /\ sidebar.Disabled = ValueOf(s.Disabled)
           /\ sidebar.WidgetID = ValueOf(s.WidgetId)
           /\ sidebar.WidgetNameSpace = ValueOf(s.WidgetNamespace)
           /\ sidebar.Settings = Some(a))

\* ct: the receiver; ei: the editor interface (not nil)
EqualEditorInterface(ct, ei) ==
    LET filteredControls ==
            Filter(ei.Controls, LAMBDA t : IsSet(t.WidgetID) \/ IsSet(t.WidgetNameSpace)
                                           \/ IsSet(t.Settings))
        filteredFields == Filter(ct.Fields, LAMBDA f : IsSet(f.Control))
        controls == FirstFailure(SeqMap(LAMBDA f : EqualControl(f, filteredControls),
                                        filteredFields))
    IN  IF Len(ct.Fields) # Len(ei.Controls) THEN Ok(FALSE)
        ELSE IF Len(filteredControls) # Len(filteredFields) THEN Ok(FALSE)
        ELSE IF controls # Ok(TRUE) THEN controls
        ELSE IF Len(ct.Sidebar) # Len(ei.SideBar) THEN Ok(FALSE)
        ELSE FirstFailure([i \in 1..Len(ct.Sidebar) |-> EqualSidebar(ct, ei, i)])

(***************************************************************************)
(* ContentType.DraftEditorInterface: rebuilds the controls and the sidebar *)
(* of the editor interface it is given, in place.                          *)
(***************************************************************************)
DraftControl(field) ==
    [ FieldID         |-> ValueOf(field.Id),
      WidgetID        |-> IF IsSet(field.Control)
                          THEN ValuePointer(Get(field.Control).WidgetId) ELSE None,
      WidgetNameSpace |-> IF IsSet(field.Control)
                          THEN ValuePointer(Get(field.Control).WidgetNamespace) ELSE None,
      Settings        |-> IF IsSet(field.Control) /\ IsSet(Get(field.Control).Settings)
                          THEN Some(SettingsDraft(Get(Get(field.Control).Settings)))
                          ELSE None ]

\* settings := make(map[string]string); t.Settings.Unmarshal(settings)
DraftSidebar(t) ==
    [ WidgetNameSpace |-> ValueOf(t.WidgetNamespace),
      WidgetID        |-> ValueOf(t.WidgetId),
      Disabled        |-> ValueOf(t.Disabled),
      Settings        |-> IF ~ValueOf(t.Disabled)
                          THEN Some(Unmarshal(t.Settings, EmptyMap, FALSE))
                          ELSE None ]

DraftEditorInterface(ct, ei) ==
    [ei EXCEPT !.Controls = SeqMap(DraftControl, ct.Fields),
               !.SideBar = SeqMap(DraftSidebar, ct.Sidebar)]

(***************************************************************************)
(* Inputs: remote content types.                                           *)
(***************************************************************************)
Locales == {"en", "de"}
FieldId(i) == "f" \o ToString(i)

RemoteValidations ==
    { FieldValidationUnique(TRUE), FieldValidationUnique(FALSE),
      FieldValidationSize(MinMax(Some(1), Some(5)), None),
      FieldValidationSize(MinMax(Some(1), None), Some("too long")),
      FieldValidationRange(MinMax(None, Some(9)), ""),
      FieldValidationRange(MinMax(Some(0), Some(9)), "out of range"),
      FieldValidationFileSize(MinMax(Some(1), Some(5))),
      FieldValidationRegex("^a", None),
      FieldValidationRegex("^a", Some("bad format")),
      FieldValidationLink(<<"post", "page">>),
      FieldValidationMimeType(<<"image">>, None),
      FieldValidationMimeType(<<"image">>, Some("images only")),
      FieldValidationPredefinedValues(<<AnyString("x"), AnyString("y")>>),
      FieldValidationPredefinedValues(<<AnyNumber(1), AnyNumber(2)>>),
      FieldValidationEnabledMarks(<<"bold">>, None),
      FieldValidationEnabledNodeTypes(<<"heading-1">>, Some("headings only")),
      FieldValidationDate }

DefaultScalars == {AnyString("a"), AnyBool(TRUE), AnyNumber(1)}
RemoteDefaultValues ==
    {None, Some(EmptyMap)}
    \cup {Some(m) : m \in UNION {[ks -> DefaultScalars] : ks \in (SUBSET Locales) \ {{}}}}

RemoteField(id) ==
    [ ID |-> id, Name |-> id, Type |-> "Symbol", LinkType |-> "",
      Localized |-> FALSE, Required |-> FALSE, Disabled |-> FALSE, Omitted |-> FALSE,
      Validations |-> <<>>, Items |-> None, DefaultValue |-> None ]

RemoteItems ==
    { None,
      Some([Type |-> "Symbol", LinkType |-> None, Validations |-> <<>>]),
      Some([Type |-> "Symbol", LinkType |-> None,
            Validations |-> <<FieldValidationSize(MinMax(Some(1), Some(5)), None)>>]),
      Some([Type |-> "Symbol", LinkType |-> None, Validations |-> <<FieldValidationDate>>]),
      Some([Type |-> "Link", LinkType |-> Some("Entry"),
            Validations |-> <<FieldValidationLink(<<"post", "page">>)>>]) }

\* the validations that the longer validation lists are made of
CoreRemoteValidations ==
    { FieldValidationUnique(TRUE),
      FieldValidationSize(MinMax(Some(1), Some(5)), None),
      FieldValidationRegex("^a", Some("bad format")),
      FieldValidationPredefinedValues(<<AnyString("x"), AnyString("y")>>),
      FieldValidationPredefinedValues(<<AnyNumber(1), AnyNumber(2)>>),
      FieldValidationDate }

\* every validation alone, and the lists of up to MaxValidations core ones
RemoteValidationSeqs ==
    {<<v>> : v \in RemoteValidations} \cup SeqsUpTo(CoreRemoteValidations, MaxValidations)

\* the remote fields a one-field model is drawn from
RichRemoteFields ==
    {[RemoteField(FieldId(1)) EXCEPT !.Validations = vs] : vs \in RemoteValidationSeqs}
    \cup {[RemoteField(FieldId(1)) EXCEPT !.Type = "Boolean", !.DefaultValue = d] :
            d \in RemoteDefaultValues}
    \cup {[RemoteField(FieldId(1)) EXCEPT !.Type = "Array", !.Items = i] : i \in RemoteItems}
    \cup {[RemoteField(FieldId(1)) EXCEPT !.Type = "Link", !.LinkType = l, !.Required = r,
                                          !.Localized = r, !.Omitted = o, !.Disabled = o] :
            l \in {"Entry", "Asset"}, r \in BOOLEAN, o \in BOOLEAN}

\* the remote fields a model of several fields is drawn from
BasicRemoteFields(id) ==
    { RemoteField(id),
      [RemoteField(id) EXCEPT !.Type = "Link", !.LinkType = "Entry", !.Required = TRUE,
                              !.Validations = <<FieldValidationLink(<<"post", "page">>)>>],
      [RemoteField(id) EXCEPT !.Type = "Array",
                              !.Items = Some([Type |-> "Symbol", LinkType |-> None,
                                              Validations |-> <<>>])],
      [RemoteField(id) EXCEPT !.Validations = <<FieldValidationDate>>] }

\* the sequences of k fields with distinct ids (ids are unique in a model);
\* fieldsOf[id] is the set the field with that id is drawn from
RECURSIVE FieldSeqs(_, _, _)
FieldSeqs(fieldsOf, ids, k) ==
    IF k = 0 THEN {<<>>}
    ELSE UNION {{<<f>> \o rest : f \in fieldsOf[id],
                                 rest \in FieldSeqs(fieldsOf, ids \ {id}, k - 1)} : id \in ids}

FieldIds == {FieldId(i) : i \in 1..MaxFields}

RemoteContentType(fields, description) ==
    [ Sys |-> Some([ID |-> "post", Version |-> 3]), Name |-> "Post",
      DisplayField |-> FieldId(1), Description |-> description, Fields |-> fields ]

Descriptions == {None, Some("a post")}

RemoteFieldSeqs ==
    {<<f>> : f \in RichRemoteFields}
    \cup UNION {FieldSeqs([id \in FieldIds |-> BasicRemoteFields(id)], FieldIds, k) :
                    k \in 0..MaxFields}

RemoteModels == {RemoteContentType(fs, d) : fs \in RemoteFieldSeqs, d \in Descriptions}

\* the remote models a declared configuration is compared with
PartnerModels ==
    {RemoteContentType(fs, None) :
        fs \in UNION {FieldSeqs([id \in FieldIds |-> {RemoteField(id)}], FieldIds, k) :
                        k \in 1..MaxFields}}

(***************************************************************************)
(* Inputs: declared configurations.                                        *)
(***************************************************************************)
Int64Null == [st |-> "null", v |-> 0]

\* the zero value of the ContentType struct
ContentType ==
    [ ID |-> StringNull, Name |-> StringNull, DisplayField |-> StringNull,
      Description |-> StringNull, Version |-> Int64Null, VersionControls |-> Int64Null,
      Fields |-> <<>>, Sidebar |-> <<>> ]

SizeRule == Some(Size(Float64Value(1), Float64Value(5)))

DeclaredValidations ==
    { Validation,
      [Validation EXCEPT !.Message = StringValue("unused")],
      [Validation EXCEPT !.Unique = BoolValue(TRUE)],
      [Validation EXCEPT !.Unique = BoolValue(FALSE)],
      [Validation EXCEPT !.Unique = BoolValue(FALSE), !.Size = SizeRule],
      [Validation EXCEPT !.Size = SizeRule],
      [Validation EXCEPT !.Size = Some(Size(Float64Value(1), Float64Null)),
                         !.Message = StringValue("too long")],
      [Validation EXCEPT !.Size = SizeRule, !.Range = SizeRule],
      [Validation EXCEPT !.Range = Some(Size(Float64Null, Float64Value(9)))],
      [Validation EXCEPT !.AssetFileSize = SizeRule],
      [Validation EXCEPT !.Regexp = Some(Regexp(StringValue("^a")))],
      [Validation EXCEPT !.Regexp = Some(Regexp(StringValue("^a"))),
                         !.Message = StringValue("bad format")],
      [Validation EXCEPT !.LinkContentType = <<StringValue("post"), StringValue("page")>>],
      [Validation EXCEPT !.LinkMimetypeGroup = <<StringValue("image")>>],
      [Validation EXCEPT !.In = <<StringValue("x"), StringValue("y")>>],
      [Validation EXCEPT !.EnabledMarks = <<StringValue("bold")>>],
      [Validation EXCEPT !.Range = SizeRule, !.AssetFileSize = SizeRule],
      [Validation EXCEPT !.AssetFileSize = SizeRule,
                         !.Regexp = Some(Regexp(StringValue("^a")))],
      [Validation EXCEPT !.Regexp = Some(Regexp(StringValue("^a"))),
                         !.LinkContentType = <<StringValue("post")>>,
                         !.LinkMimetypeGroup = <<StringValue("image")>>],
      [Validation EXCEPT !.LinkMimetypeGroup = <<StringValue("image")>>,
                         !.In = <<StringValue("x")>>],
      [Validation EXCEPT !.In = <<StringValue("x")>>,
                         !.EnabledMarks = <<StringValue("bold")>>,
                         !.EnabledNodeTypes = <<StringValue("heading-1")>>],
      [Validation EXCEPT !.EnabledNodeTypes = <<StringValue("heading-1")>>,
                         !.Message = StringValue("headings only")] }

DeclaredDefaultValues ==
    { None,
      Some([Bool |-> MapNull, String |-> MapNull]),
      Some([Bool |-> MapNull, String |-> MapValue([k \in {"en"} |-> StringValue("a")])]),
      Some([Bool |-> MapValue([k \in Locales |-> BoolValue(k = "en")]), String |-> MapNull]),
      Some([Bool |-> MapValue([k \in {"de"} |-> BoolValue(TRUE)]),
            String |-> MapValue([k \in {"en"} |-> StringValue("a")])]) }

DeclaredItems ==
    { None,
      Some([Type |-> StringValue("Symbol"), LinkType |-> StringNull, Validations |-> <<>>]),
      Some([Type |-> StringValue("Symbol"), LinkType |-> StringNull,
            Validations |-> <<Validation>>]),
      Some([Type |-> StringValue("Link"), LinkType |-> StringValue("Entry"),
            Validations |-> <<[Validation EXCEPT !.LinkContentType =
                                  <<StringValue("post"), StringValue("page")>>]>>]) }

Field(id) ==
    [ Id |-> StringValue(id), Name |-> StringValue(id), Type |-> StringValue("Symbol"),
      LinkType |-> StringNull, Required |-> BoolValue(FALSE), Localized |-> BoolValue(FALSE),
      Disabled |-> BoolValue(FALSE), Omitted |-> BoolValue(FALSE), Validations |-> <<>>,
      Items |-> None, Control |-> None, DefaultValue |-> None ]

\* the rules that the longer rule lists are made of
CoreDeclaredValidations ==
    { Validation,
      [Validation EXCEPT !.Unique = BoolValue(FALSE), !.Size = SizeRule],
      [Validation EXCEPT !.Size = SizeRule],
      [Validation EXCEPT !.Regexp = Some(Regexp(StringValue("^a"))),
                         !.LinkContentType = <<StringValue("post")>>,
                         !.LinkMimetypeGroup = <<StringValue("image")>>],
      [Validation EXCEPT !.In = <<StringValue("x"), StringValue("y")>>],
      [Validation EXCEPT !.EnabledMarks = <<StringValue("bold")>> ] }

\* every rule alone, and the lists of up to MaxValidations core ones
DeclaredValidationSeqs ==
    {<<v>> : v \in DeclaredValidations} \cup SeqsUpTo(CoreDeclaredValidations, MaxValidations)

RichFields ==
    {[Field(FieldId(1)) EXCEPT !.Validations = vs] : vs \in DeclaredValidationSeqs}
    \cup {[Field(FieldId(1)) EXCEPT !.Type = StringValue("Boolean"), !.DefaultValue = d] :
            d \in DeclaredDefaultValues}
    \cup {[Field(FieldId(1)) EXCEPT !.Type = StringValue(t), !.Items = i] :
            t \in {"Array", "Symbol"}, i \in DeclaredItems}
    \cup {[Field(FieldId(1)) EXCEPT !.Type = StringValue("Link"), !.LinkType = l,
                                    !.Required = r] :
            l \in {StringNull, StringUnknown, StringValue("Entry")},
            r \in {BoolNull, BoolValue(TRUE)}}

BasicFields(id) ==
    { Field(id),
      [Field(id) EXCEPT !.Type = StringValue("Link"), !.LinkType = StringValue("Entry"),
                        !.Required = BoolValue(TRUE),
                        !.Validations = <<[Validation EXCEPT !.LinkContentType =
                                              <<StringValue("post"), StringValue("page")>>]>>],
      [Field(id) EXCEPT !.Type = StringValue("Array"),
                        !.Items = Some([Type |-> StringValue("Symbol"),
                                        LinkType |-> StringNull, Validations |-> <<>>])],
      [Field(id) EXCEPT !.Validations = <<Validation>>] }

DeclaredFieldSeqs ==
    {<<f>> : f \in RichFields}
    \cup UNION {FieldSeqs([id \in FieldIds |-> BasicFields(id)], FieldIds, k) :
                    k \in 0..MaxFields}

DeclaredIds == {StringNull, StringUnknown, StringValue("post")}

DeclaredModels ==
    {[ContentType EXCEPT !.ID = StringValue("post"), !.Name = StringValue("Post"),
                         !.DisplayField = StringValue(FieldId(1)),
                         !.Description = d, !.Fields = fs] :
        fs \in DeclaredFieldSeqs, d \in {StringNull, StringValue("a post")}}
    \cup {[ContentType EXCEPT !.ID = id, !.Name = StringValue("Post"),
                              !.DisplayField = StringValue(FieldId(1)),
                              !.Fields = <<Field(FieldId(1))>>] : id \in DeclaredIds}

(***************************************************************************)
(* The state machine. Every operation records its outcome in last; a       *)
(* panic ends the process, so nothing runs after it.                       *)
(***************************************************************************)
NoOp == [op |-> "none", status |-> "ok", val |-> None, err |-> ""]
Result(op, status, val, error) == [op |-> op, status |-> status, val |-> val, err |-> error]
Alive == last.status # "panic"

\* parseError(err)
ParseError ==
    /\ last.op = "none"
    /\ last' = Result("parseError", "ok", parseError(err), "")
    /\ UNCHANGED <<err, n, e, c, origin>>

\* the keys that the default-value map of each field may be visited from
Firsts(nct) ==
    {f \in [1..Len(nct.Fields) -> Locales] :
        \A i \in 1..Len(nct.Fields) :
            LET keys == DOMAIN Entries(nct.Fields[i].DefaultValue)
            IN  IF keys = {} THEN f[i] = "en" ELSE f[i] \in keys}

\* c.Import(n, e)
Import ==
    /\ Alive
    /\ \E firsts \in Firsts(n) :
          LET r == ContentTypeImport(c, n, e, firsts)
          IN  /\ c' = r.c
              /\ origin' = IF r.status = "ok" THEN "imported" ELSE "partial"
              /\ last' = Result("Import", r.status, None, r.err)
    /\ UNCHANGED <<err, n, e>>

\* c.Draft()
Draft ==
    /\ Alive
    /\ origin # "zero"
    /\ LET r == ContentTypeDraft(c)
       IN  last' = IF r.status = "ok" THEN Result("Draft", "ok", r.val, "")
                   ELSE Result("Draft", r.status, None, r.err)
    /\ UNCHANGED <<err, n, e, c, origin>>

\* c.Equal(n)
Equal ==
    /\ Alive
    /\ origin # "zero"
    /\ last' = Result("Equal", "ok", ContentTypeEqual(c, n), "")
    /\ UNCHANGED <<err, n, e, c, origin>>

\* c.EqualEditorInterface(e)
EqualEI ==
    /\ Alive
    /\ origin # "zero"
    /\ IsSet(e)
    /\ LET r == EqualEditorInterface(c, Get(e))
       IN  last' = IF r.status = "ok" THEN Result("EqualEditorInterface", "ok", r.val, "")
                   ELSE Result("EqualEditorInterface", r.status, None, r.err)
    /\ UNCHANGED <<err, n, e, c, origin>>

\* c.DraftEditorInterface(e): e is rebuilt in place
DraftEI ==
    /\ Alive
    /\ origin # "zero"
    /\ IsSet(e)
    /\ e' = Some(DraftEditorInterface(c, Get(e)))
    /\ last' = Result("DraftEditorInterface", "ok", None, "")
    /\ UNCHANGED <<err, n, c, origin>>

\* the remote system: another client moves a field of the content type
Swap(s, i, j) == [k \in 1..Len(s) |-> IF k = i THEN s[j] ELSE IF k = j THEN s[i] ELSE s[k]]

RemoteMoveField ==
    /\ Alive
    /\ origin = "imported"
    /\ \E i \in 1..Len(n.Fields), j \in 1..Len(n.Fields) :
          /\ i < j
          /\ n' = [n EXCEPT !.Fields = Swap(n.Fields, i, j)]
    /\ origin' = "stale"
    /\ last' = NoOp
    /\ UNCHANGED <<err, e, c>>

\* the payload that Draft has returned is written: the remote system stores
\* it under the identity of the content type, with the next version
Write ==
    /\ Alive
    /\ last.op = "Draft"
    /\ last.status = "ok"
    /\ Get(n.Sys).Version < MaxVersion
    /\ n' = [last.val EXCEPT !.Sys = Some([ID |-> Get(n.Sys).ID,
                                           Version |-> Get(n.Sys).Version + 1])]
    /\ origin' = "written"
    /\ last' = NoOp
    /\ UNCHANGED <<err, e, c>>

\* the remote system: another client reorders the validations of a field
RemoteReorderValidations ==
    /\ Alive
    /\ origin = "imported"
    /\ \E i \in 1..Len(n.Fields) :
          \E j \in 1..Len(n.Fields[i].Validations), k \in 1..Len(n.Fields[i].Validations) :
             /\ j < k
             /\ n.Fields[i].Validations[j] # n.Fields[i].Validations[k]
             /\ n' = [n EXCEPT !.Fields[i].Validations = Swap(n.Fields[i].Validations, j, k)]
    /\ origin' = "stale"
    /\ last' = NoOp
    /\ UNCHANGED <<err, e, c>>

(***************************************************************************)
(* Inputs: editor interfaces, and configurations with controls and a       *)
(* sidebar.                                                                *)
(***************************************************************************)
NoSettings ==
    [ HelpText |-> None, TrueLabel |-> None, FalseLabel |-> None, Stars |-> None,
      Format |-> None, AMPM |-> None, BulkEditing |-> None, TrackingFieldId |-> None ]
HelpSettings == [NoSettings EXCEPT !.HelpText = Some("slug of the post")]

RemoteControl(id, widget, namespace, settings) ==
    [FieldID |-> id, WidgetID |-> widget, WidgetNameSpace |-> namespace, Settings |-> settings]

\* the control entries of a field: every shape for the first field, a bare
\* entry or a plain widget for the others
RemoteControls(id) ==
    IF id # FieldId(1)
    THEN { RemoteControl(id, None, None, None),
           RemoteControl(id, Some("singleLine"), Some("builtin"), None) }
    ELSE
    { RemoteControl(id, None, None, None),
      RemoteControl(id, Some("singleLine"), Some("builtin"), None),
      RemoteControl(id, Some("singleLine"), Some("builtin"), Some(HelpSettings)),
      RemoteControl(id, Some("slugEditor"), Some("builtin"), None),
      RemoteControl(id, Some("singleLine"), None, None),
      RemoteControl(id, None, Some("builtin"), None),
      RemoteControl(id, None, None, Some(HelpSettings)) }

RemoteControlSeqs ==
    UNION {FieldSeqs([id \in FieldIds |-> RemoteControls(id)], FieldIds, k) : k \in 0..MaxFields}

RemoteSidebars ==
    {[WidgetNameSpace |-> "sidebar-builtin", WidgetID |-> w, Settings |-> ds[1],
      Disabled |-> ds[2]] :
        w \in {"users", "versions"},
        ds \in { <<None, FALSE>>, <<Some(EmptyMap), FALSE>>,
                 <<Some([k \in {"a"} |-> "x"]), FALSE>>, <<None, TRUE>> }}

EditorInterface(controls, sidebar) ==
    [Sys |-> [Version |-> 2], Controls |-> controls, SideBar |-> sidebar]

DeclaredSettings ==
    [ HelpText |-> StringValue("slug of the post"), TrueLabel |-> StringNull,
      FalseLabel |-> StringNull, Stars |-> Int64Null, Format |-> StringNull,
      TimeFormat |-> StringNull, BulkEditing |-> BoolNull, TrackingFieldId |-> StringNull ]

Control(widget, settings) ==
    [WidgetId |-> StringValue(widget), WidgetNamespace |-> StringValue("builtin"),
     Settings |-> settings]

DeclaredControls ==
    { None, Some(Control("singleLine", None)), Some(Control("singleLine", Some(DeclaredSettings))),
      Some(Control("slugEditor", None)) }

\* the first k fields, each with one of the declared controls
RECURSIVE ControlledFields(_)
ControlledFields(k) ==
    IF k = 0 THEN {<<>>}
    ELSE {Append(fs, [Field(FieldId(k)) EXCEPT !.Control = ctl]) :
            fs \in ControlledFields(k - 1),
            ctl \in IF k = 1 THEN DeclaredControls
                    ELSE {None, Some(Control("singleLine", None))}}

DeclaredSidebars ==
    {[WidgetId |-> StringValue(w), WidgetNamespace |-> StringValue("sidebar-builtin"),
      Settings |-> StringValue(s), Disabled |-> BoolValue(d)] :
        w \in {"users", "versions"}, s \in {"{}", "{\"a\":\"x\"}"}, d \in BOOLEAN}

Declared(fields, sidebar) ==
    [ContentType EXCEPT !.ID = StringValue("post"), !.Name = StringValue("Post"),
                        !.DisplayField = StringValue(FieldId(1)),
                        !.Fields = fields, !.Sidebar = sidebar]

\* the remote content type with the first k fields
RECURSIVE PlainRemoteFields(_)
PlainRemoteFields(k) ==
    IF k = 0 THEN <<>> ELSE Append(PlainRemoteFields(k - 1), RemoteField(FieldId(k)))

(***************************************************************************)
(* Specifications. SpecErr runs the error translator on every error of     *)
(* ErrorInputs. Spec runs the content-type operations: on a remote model   *)
(* read into a fresh struct, and on a declared configuration beside a      *)
(* remote model.                                                           *)
(***************************************************************************)
InitErr ==
    /\ err \in ErrorInputs
    /\ n = RemoteContentType(<<>>, None)
    /\ e = None
    /\ c = ContentType
    /\ origin = "zero"
    /\ last = NoOp

NextErr == ParseError

SpecErr == InitErr /\ [][NextErr]_vars

Init ==
    /\ err = NilError
    /\ e = None
    /\ last = NoOp
    /\ \/ n \in RemoteModels /\ c = ContentType /\ origin = "zero"
       \/ n \in PartnerModels /\ c \in DeclaredModels /\ origin = "declared"

Next == Import \/ Draft \/ Equal \/ Write \/ RemoteMoveField \/ RemoteReorderValidations

Spec == Init /\ [][Next]_vars

\* SpecEI runs the editor-interface operations: a declared configuration with
\* controls beside the controls of an editor interface, or with a sidebar
\* beside the sidebar of one, and an editor interface read into a fresh struct.
InitEI ==
    /\ err = NilError
    /\ last = NoOp
    /\ \/ \E k \in 1..MaxFields :
             /\ n = RemoteContentType(PlainRemoteFields(k), None)
             /\ c \in {Declared(fs, <<>>) : fs \in ControlledFields(k)}
             /\ e \in {Some(EditorInterface(cs, <<>>)) : cs \in RemoteControlSeqs}
             /\ origin = "declared"
       \/ /\ n = RemoteContentType(PlainRemoteFields(1), None)
          /\ c \in {Declared(<<Field(FieldId(1))>>, sb) :
                        sb \in SeqsUpTo(DeclaredSidebars, MaxSidebar)}
          /\ e \in {Some(EditorInterface(<<RemoteControl(FieldId(1), None, None, None)>>, sb)) :
                        sb \in SeqsUpTo(RemoteSidebars, 1)}
          /\ origin = "declared"
       \/ \E k \in 0..MaxFields :
             /\ n = RemoteContentType(PlainRemoteFields(k), None)
             /\ c = ContentType
             /\ e \in {None}
                      \cup {Some(EditorInterface(cs, <<>>)) : cs \in RemoteControlSeqs}
                      \cup {Some(EditorInterface(<<>>, sb)) :
                                sb \in SeqsUpTo(RemoteSidebars, MaxSidebar)}
             /\ origin = "zero"

NextEI == Import \/ EqualEI \/ DraftEI

SpecEI == InitEI /\ [][NextEI]_vars

(***************************************************************************)
(* Properties of the error translator (SpecErr).                           *)
(***************************************************************************)
\* the dot-joined text of each path of Paths, written out
PathText(p) ==
    CASE p = None -> ""
      [] p = Some(<<PStr("path"), PStr("to"), PStr("error")>>) -> "path.to.error"
      [] p = Some(<<PStr("a"), PStr("b")>>) -> "a.b"
      [] p = Some(<<PStr("fields"), PInt(0)>>) -> "fields.0"

\* C1: for a structured error with n nested details, parseError returns n
\* warnings, in the order of the details, each of text "<detail> (<dot-joined
\* path>)", followed by exactly one Error that carries the top-level message;
\* the Error is last and no warning follows it.
C1_StructuredErrorDiagnostics ==
    (last.op = "parseError" /\ err.kind = "ErrorResponse") =>
        LET d == last.val
            details == DetailErrors(err)
            k == Len(details)
        IN  /\ Len(d) = k + 1
            /\ \A i \in 1..k :
                   /\ d[i].Severity = "Warning"
                   /\ d[i].Summary = details[i].Details \o " (" \o PathText(details[i].Path) \o ")"
            /\ d[k + 1] = Diagnostic("Error", err.Message)
            /\ Cardinality({i \in 1..Len(d) : d[i].Severity = "Error"}) = 1

\* a structured error with two details, one with a path and one without, has
\* been translated
C1_Witness ==
    /\ last.op = "parseError"
    /\ err.kind = "ErrorResponse"
    /\ err.Message = "error message"
    /\ IsSet(err.Details)
    /\ Len(DetailErrors(err)) = 2
    /\ last.val = << Diagnostic("Warning", "error detail (path.to.error)"),
                     Diagnostic("Warning", "detail2 ()"),
                     Diagnostic("Error", "error message") >>

\* C2: for an error that is not a structured error, parseError returns
\* exactly one diagnostic, of severity Error, whose text is the message of
\* the error.
C2_OpaqueErrorDiagnostic ==
    (last.op = "parseError" /\ err.kind = "opaque") =>
        /\ Len(last.val) = 1
        /\ last.val[1].Severity = "Error"
        /\ last.val[1].Summary = err.Message

C2_Witness ==
    /\ last.op = "parseError"
    /\ err = [kind |-> "opaque", Message |-> "regular error"]
    /\ last.val = <<Diagnostic("Error", "regular error")>>

\* C3: for nil, parseError returns no diagnostics.
C3_NilNoDiagnostics ==
    (last.op = "parseError" /\ err = NilError) => Len(last.val) = 0

C3_Witness ==
    /\ last.op = "parseError"
    /\ err.kind = "nil"
    /\ last.val = <<>>

(***************************************************************************)
(* Properties of import, draft and comparison (Spec).                      *)
(***************************************************************************)
KnownValidationTypes ==
    { "FieldValidationUnique", "FieldValidationSize", "FieldValidationRange",
      "FieldValidationFileSize", "FieldValidationRegex", "FieldValidationLink",
      "FieldValidationMimeType", "FieldValidationPredefinedValues",
      "FieldValidationEnabledMarks", "FieldValidationEnabledNodeTypes" }

\* every entry of the map is of type ty
AllOfType(mapValues, ty) == \A k \in DOMAIN Entries(mapValues) : Entries(mapValues)[k].t = ty

ValidRemoteValidation(v) ==
    /\ v.type \in KnownValidationTypes
    /\ v.type = "FieldValidationPredefinedValues" =>
           \A i \in 1..Len(v.In) : v.In[i].t = "string"

ValidRemoteField(nf) ==
    /\ \A i \in 1..Len(nf.Validations) : ValidRemoteValidation(nf.Validations[i])
    /\ AllOfType(nf.DefaultValue, "string") \/ AllOfType(nf.DefaultValue, "bool")
    /\ (nf.Type = "Array") <=> IsSet(nf.Items)
    /\ IsSet(nf.Items) =>
           \A i \in 1..Len(Get(nf.Items).Validations) :
               ValidRemoteValidation(Get(nf.Items).Validations[i])

\* a valid remote model: known validations, string predefined values, default
\* maps of strings only or of booleans only, items on array fields only, and
\* ids that are unique
ValidRemote(nct) ==
    /\ \A i \in 1..Len(nct.Fields) : ValidRemoteField(nct.Fields[i])
    /\ \A i, j \in 1..Len(nct.Fields) : nct.Fields[i].ID = nct.Fields[j].ID => i = j

\* C4: for every valid remote model R, Import(R) succeeds, Draft of the
\* imported configuration succeeds, and the imported configuration compares
\* Equal(R) = true.
C4_ImportRoundTrip ==
    ValidRemote(n) =>
        /\ last.op = "Import" => last.status = "ok"
        /\ (origin = "imported" /\ last.op = "Draft") => last.status = "ok"
        /\ (origin = "imported" /\ last.op = "Equal") => last.val = TRUE

\* ct and nct hold the same fields and two of them, of different ids, have
\* changed places
SameFieldsSwapped(ct, nct) ==
    /\ Len(ct.Fields) = Len(nct.Fields)
    /\ \E i, j \in 1..Len(ct.Fields) :
          /\ i < j
          /\ ValueOf(ct.Fields[i].Id) # ValueOf(ct.Fields[j].Id)
          /\ FieldEqual(ct.Fields[i], nct.Fields[j])
          /\ FieldEqual(ct.Fields[j], nct.Fields[i])
          /\ \A k \in 1..Len(ct.Fields) \ {i, j} : FieldEqual(ct.Fields[k], nct.Fields[k])

\* C5: when the desired and the remote model hold the same fields with the
\* same attributes but a field sits at another index, ContentType.Equal
\* returns false.
C5_PositionalDrift ==
    (last.op = "Equal" /\ SameFieldsSwapped(c, n)) => last.val = FALSE

\* Equal has answered false for a configuration that differs from the remote
\* model by the place of two fields only
C5_Witness ==
    /\ last.op = "Equal"
    /\ SameFieldsSwapped(c, n)
    /\ ValueOf(c.Name) = n.Name
    /\ ValueOf(c.DisplayField) = n.DisplayField
    /\ CompareStringPointer(c.Description, n.Description)
    /\ last.val = FALSE

\* the model has one field, without validations and not an array, so that
\* its import is decided by its default-value map alone
OnlyDefaultValue(nct) ==
    /\ Len(nct.Fields) = 1
    /\ nct.Fields[1].Validations = <<>>
    /\ nct.Fields[1].Type # "Array"
    /\ DOMAIN Entries(nct.Fields[1].DefaultValue) # {}

\* C6: a default-value map of strings only is imported as a String map with
\* the same keys and values, one of booleans only as a Bool map; a map with a
\* value of another type, or with strings and booleans mixed, makes Import
\* return an error, whatever the order the entries are visited in.
C6_DefaultValueImport ==
    (last.op = "Import" /\ OnlyDefaultValue(n)) =>
        LET m == Entries(n.Fields[1].DefaultValue)
        IN  IF AllOfType(n.Fields[1].DefaultValue, "string")
            THEN /\ last.status = "ok"
                 /\ c.Fields[1].DefaultValue =
                        Some([ Bool   |-> MapNull,
                               String |-> MapValue([k \in DOMAIN m |-> StringValue(m[k].s)]) ])
            ELSE IF AllOfType(n.Fields[1].DefaultValue, "bool")
            THEN /\ last.status = "ok"
                 /\ c.Fields[1].DefaultValue =
                        Some([ Bool   |-> MapValue([k \in DOMAIN m |-> BoolValue(m[k].b)]),
                               String |-> MapNull ])
            ELSE last.status = "error"

\* a validation of a type that getValidation does not know (the nil
\* interface value has no type)
UnknownVariant(v) == v.type \notin KnownValidationTypes \cup {"nil"}

HasUnknownValidation(nct) ==
    \E i \in 1..Len(nct.Fields) :
        \/ \E j \in 1..Len(nct.Fields[i].Validations) :
               UnknownVariant(nct.Fields[i].Validations[j])
        \/ /\ IsSet(nct.Fields[i].Items)
           /\ \E j \in 1..Len(Get(nct.Fields[i].Items).Validations) :
                  UnknownVariant(Get(nct.Fields[i].Items).Validations[j])

\* nct is a valid remote model but for validations of an unknown type
ValidButUnknownValidation(nct) ==
    ValidRemote([nct EXCEPT !.Fields =
        SeqMap(LAMBDA nf :
                 [nf EXCEPT !.Validations =
                                SelectSeq(nf.Validations, LAMBDA v : ~UnknownVariant(v)),
                            !.Items =
                                IF IsSet(nf.Items)
                                THEN Some([Get(nf.Items) EXCEPT !.Validations =
                                             SelectSeq(Get(nf.Items).Validations,
                                                       LAMBDA v : ~UnknownVariant(v))])
                                ELSE None],
               nct.Fields)])

\* C7: an Import of a remote model with a validation of an unknown type does
\* not succeed and produces no field list: Fields and Sidebar stay as they
\* were; when nothing else is wrong with the model, the Import returns the
\* UnsupportedVariant error.
C7_UnknownValidationFailsImport ==
    [][ (last'.op = "Import" /\ HasUnknownValidation(n')) =>
            /\ last'.status # "ok"
            /\ c'.Fields = c.Fields
            /\ c'.Sidebar = c.Sidebar
            /\ ValidButUnknownValidation(n') =>
                   (last'.status = "error" /\ last'.err = "UnsupportedVariant") ]_vars

\* the Import of a model whose second validation is of an unknown type has
\* failed with UnsupportedVariant and has left the field list empty
C7_Witness ==
    /\ last.op = "Import"
    /\ last.status = "error"
    /\ last.err = "UnsupportedVariant"
    /\ Len(n.Fields) = 1
    /\ Len(n.Fields[1].Validations) = 2
    /\ n.Fields[1].Validations[1].type = "FieldValidationUnique"
    /\ n.Fields[1].Validations[2] = FieldValidationDate
    /\ c.Fields = <<>>
    /\ origin = "partial"

IsEmptyRule(v) ==
    /\ IsNull(v.Unique) \/ IsUnknown(v.Unique)
    /\ ~IsSet(v.Size) /\ ~IsSet(v.Range) /\ ~IsSet(v.AssetFileSize) /\ ~IsSet(v.Regexp)
    /\ Len(v.LinkContentType) = 0 /\ Len(v.LinkMimetypeGroup) = 0 /\ Len(v.In) = 0
    /\ Len(v.EnabledMarks) = 0 /\ Len(v.EnabledNodeTypes) = 0

\* a field of ct, or the items of an array field of ct, holds an empty rule
HasEmptyRule(ct) ==
    \E i \in 1..Len(ct.Fields) :
        \/ \E j \in 1..Len(ct.Fields[i].Validations) : IsEmptyRule(ct.Fields[i].Validations[j])
        \/ /\ ValueOf(ct.Fields[i].Type) = "Array"
           /\ IsSet(ct.Fields[i].Items)
           /\ \E j \in 1..Len(Get(ct.Fields[i].Items).Validations) :
                  IsEmptyRule(Get(ct.Fields[i].Items).Validations[j])

\* C8: a rule with no sub-structure populated drafts to the UnsupportedVariant
\* error, and ContentType.Draft of a configuration that holds one returns
\* that error.
C8_EmptyRuleFailsDraft ==
    (last.op = "Draft" /\ HasEmptyRule(c)) =>
        /\ \A v \in DeclaredValidations :
               IsEmptyRule(v) => ValidationDraft(v) = Error("UnsupportedVariant")
        /\ last.status = "error"
        /\ last.err = "UnsupportedVariant"
        /\ last.val = None

(***************************************************************************)
(* Properties of the editor-interface operations (SpecEI).                 *)
(***************************************************************************)
\* C9: after DraftEditorInterface, every sidebar widget declared with
\* disabled = true has no settings in the editor interface, whatever settings
\* it declares, and every widget declared with disabled = false has the map
\* that its declared settings text decodes to.
C9_SidebarSettingsDrafted ==
    (last.op = "DraftEditorInterface") =>
        /\ Len(Get(e).SideBar) = Len(c.Sidebar)
        /\ \A i \in 1..Len(c.Sidebar) :
               IF ValueOf(c.Sidebar[i].Disabled)
               THEN Get(e).SideBar[i].Settings = None
               ELSE Get(e).SideBar[i].Settings =
                        Some(Unmarshal(c.Sidebar[i].Settings, EmptyMap, TRUE))

\* C10: comparison is total: ContentType.Equal (and Field.Equal under it) and
\* ContentType.EqualEditorInterface answer true or false for every
\* configuration and every remote model or editor interface, and never crash.
C10_ComparisonTotal ==
    (last.op \in {"Equal", "EqualEditorInterface"}) =>
        /\ last.status = "ok"
        /\ last.val \in BOOLEAN

\* C11: the payload that ContentType.Draft returns carries an identity (Sys
\* with the id) exactly when the id of the configuration is set, and none
\* when the id is null or unknown.
C11_IdentityOnlyWhenIdSet ==
    (last.op = "Draft" /\ last.status = "ok") =>
        (IsSet(last.val.Sys) <=> (~IsNull(c.ID) /\ ~IsUnknown(c.ID)))

(***************************************************************************)
(* Remote writes under optimistic concurrency. The remote system and the   *)
(* resource's update are not part of the sources; they follow the          *)
(* specification: a write submits the version last read, and the remote    *)
(* system refuses a write whose version is not its current one.            *)
(***************************************************************************)
\* a write that is accepted whatever version it submits
RemoteUpdate_LastWriterWins(current, version, payload) ==
    [status |-> "ok", err |-> "", version |-> current + 1, written |-> TRUE]

\* update(identity, version, payload): Conflict on a version that is not the
\* current one, and nothing is written; else the payload is stored under the
\* next version
RemoteUpdate(current, version, payload) ==
    IF version # current
    THEN [status |-> "error", err |-> "Conflict", version |-> current, written |-> FALSE]
    ELSE [status |-> "ok", err |-> "", version |-> current + 1, written |-> TRUE]

\* the user edits the configuration
DeclaredDescriptions == {StringNull, StringValue("a post"), StringValue("edited")}
DeclaredSidebarEdits ==
    { <<>>,
      <<[WidgetId |-> StringValue("users"), WidgetNamespace |-> StringValue("sidebar-builtin"),
         Settings |-> StringValue("{}"), Disabled |-> BoolValue(TRUE)]>> }

Declare ==
    /\ Alive
    /\ origin = "imported"
    /\ \E d \in DeclaredDescriptions, sb \in DeclaredSidebarEdits :
          c' = [c EXCEPT !.Description = d, !.Sidebar = sb]
    /\ c' # c
    /\ UNCHANGED <<err, n, e, origin, last>>

\* the resource's update of the content type: the drafted payload is
\* submitted once, with the version of the last read
UpdateContentType ==
    /\ Alive
    /\ origin = "imported"
    /\ last.err # "Conflict"
    /\ Get(n.Sys).Version < MaxVersion
    /\ ContentTypeDraft(c).status = "ok"
    /\ LET payload == ContentTypeDraft(c).val
           r == RemoteUpdate(Get(n.Sys).Version, ValueOf(c.Version), payload)
       IN  /\ n' = IF r.written
                   THEN [payload EXCEPT !.Sys = Some([ID |-> Get(n.Sys).ID,
                                                      Version |-> r.version])]
                   ELSE n
           /\ c' = IF r.status = "ok" THEN [c EXCEPT !.Version = Int64Value(r.version)] ELSE c
           /\ last' = Result("UpdateContentType", r.status, None, r.err)
    /\ UNCHANGED <<err, e, origin>>

\* the resource's update of the editor interface, with its own version
UpdateEditorInterface ==
    /\ Alive
    /\ origin = "imported"
    /\ last.err # "Conflict"
    /\ IsSet(e)
    /\ Get(e).Sys.Version < MaxVersion
    /\ LET payload == DraftEditorInterface(c, Get(e))
           r == RemoteUpdate(Get(e).Sys.Version, ValueOf(c.VersionControls), payload)
       IN  /\ e' = IF r.written
                   THEN Some([payload EXCEPT !.Sys = [Version |-> r.version]])
                   ELSE e
           /\ c' = IF r.status = "ok"
                   THEN [c EXCEPT !.VersionControls = Int64Value(r.version)] ELSE c
           /\ last' = Result("UpdateEditorInterface", r.status, None, r.err)
    /\ UNCHANGED <<err, n, origin>>

\* another writer updates the content type or the editor interface
RemoteWrite ==
    /\ Alive
    /\ \/ /\ Get(n.Sys).Version < MaxVersion
          /\ \E d \in {None, Some("a post"), Some("theirs")} :
                n' = [n EXCEPT !.Description = d,
                               !.Sys = Some([ID |-> Get(n.Sys).ID,
                                             Version |-> Get(n.Sys).Version + 1])]
          /\ UNCHANGED e
       \/ /\ IsSet(e)
          /\ Get(e).Sys.Version < MaxVersion
          /\ e' = Some([Get(e) EXCEPT !.Sys = [Version |-> Get(e).Sys.Version + 1],
                                      !.SideBar = <<>>])
          /\ UNCHANGED n
    /\ UNCHANGED <<err, c, origin, last>>

InitSync ==
    /\ err = NilError
    /\ last = NoOp
    /\ c = ContentType
    /\ origin = "zero"
    /\ n \in {RemoteContentType(PlainRemoteFields(1), d) : d \in Descriptions}
    /\ e \in {None}
             \cup {Some(EditorInterface(<<RemoteControl(FieldId(1), None, None, None)>>, sb)) :
                     sb \in SeqsUpTo(RemoteSidebars, 1)}

NextSync == Import \/ Declare \/ UpdateContentType \/ UpdateEditorInterface \/ RemoteWrite

SpecSync == InitSync /\ [][NextSync]_vars

(***************************************************************************)
(* Properties of the writes (SpecSync).                                    *)
(***************************************************************************)
\* C12: a write of the content type or of the editor interface that submits
\* a version older than the remote system's current one returns Conflict and
\* changes neither the remote content type, nor the editor interface, nor
\* the versions on either side; and after a Conflict the resource submits
\* nothing again before the next read.
C12_ConflictSurfacing ==
    [][ /\ ( \/ UpdateContentType /\ ValueOf(c.Version) < Get(n.Sys).Version
             \/ UpdateEditorInterface /\ ValueOf(c.VersionControls) < Get(e).Sys.Version )
           => ( /\ last'.status = "error"
                /\ last'.err = "Conflict"
                /\ n' = n
                /\ e' = e
                /\ c' = c )
        /\ last.err = "Conflict" => (last'.op = "Import" \/ last' = last) ]_vars

\* a write of an edited description has been refused with Conflict, the
\* remote content type being two versions ahead of the last read
C12_Witness ==
    /\ last.op = "UpdateContentType"
    /\ last.err = "Conflict"
    /\ ValueOf(c.Version) + 2 = Get(n.Sys).Version
    /\ c.Description = StringValue("edited")
    /\ n.Description = Some("theirs")

(***************************************************************************)
(* Properties of the validation rules (Spec).                              *)
(***************************************************************************)
\* the sub-structures of a rule, in the order Validation.Draft is said to
\* test them, and the remote type each one drafts to
VariantOrder ==
    << "Unique", "Size", "Range", "AssetFileSize", "Regexp", "LinkContentType",
       "LinkMimetypeGroup", "In", "EnabledMarks", "EnabledNodeTypes" >>

Populated(v, name) ==
    CASE name = "Unique" -> ~IsNull(v.Unique) /\ ~IsUnknown(v.Unique)
      [] name \in {"Size", "Range", "AssetFileSize", "Regexp"} -> IsSet(v[name])
      [] OTHER -> Len(v[name]) > 0

VariantType(name) ==
    CASE name = "Unique" -> "FieldValidationUnique"
      [] name = "Size" -> "FieldValidationSize"
      [] name = "Range" -> "FieldValidationRange"
      [] name = "AssetFileSize" -> "FieldValidationFileSize"
      [] name = "Regexp" -> "FieldValidationRegex"
      [] name = "LinkContentType" -> "FieldValidationLink"
      [] name = "LinkMimetypeGroup" -> "FieldValidationMimeType"
      [] name = "In" -> "FieldValidationPredefinedValues"
      [] name = "EnabledMarks" -> "FieldValidationEnabledMarks"
      [] name = "EnabledNodeTypes" -> "FieldValidationEnabledNodeTypes"

\* the first populated sub-structure of a rule that is not empty
FirstPopulated(v) ==
    VariantOrder[CHOOSE k \in 1..Len(VariantOrder) :
                    /\ Populated(v, VariantOrder[k])
                    /\ \A j \in 1..(k - 1) : ~Populated(v, VariantOrder[j])]

\* the sub-structures of v that are populated
PopulatedCount(v) ==
    Cardinality({k \in 1..Len(VariantOrder) : Populated(v, VariantOrder[k])})

\* C13: every rule of a drafted field is drafted as the variant of its first
\* populated sub-structure in the order uniqueness, size, range, file size,
\* regex, link content types, mime types, predefined values, enabled marks,
\* enabled node types; the uniqueness flag counts as populated when it is
\* set, whatever its value, and is then drafted with that value.
C13_FirstMatchWins ==
    (last.op = "Draft" /\ last.status = "ok") =>
        \A i \in 1..Len(c.Fields) : \A j \in 1..Len(c.Fields[i].Validations) :
            LET v == c.Fields[i].Validations[j]
                d == last.val.Fields[i].Validations[j]
            IN  ~IsEmptyRule(v) =>
                   /\ d.type = VariantType(FirstPopulated(v))
                   /\ Populated(v, "Unique") => d = FieldValidationUnique(ValueOf(v.Unique))

\* a rule with unique = false and a size has been drafted as the uniqueness
\* variant with value false, next to a rule with several later
\* sub-structures populated
C13_Witness ==
    /\ last.op = "Draft"
    /\ last.status = "ok"
    /\ Len(c.Fields) = 1
    /\ Len(c.Fields[1].Validations) = 2
    /\ c.Fields[1].Validations[1].Unique = BoolValue(FALSE)
    /\ IsSet(c.Fields[1].Validations[1].Size)
    /\ last.val.Fields[1].Validations[1] = FieldValidationUnique(FALSE)
    /\ PopulatedCount(c.Fields[1].Validations[2]) = 3
    /\ last.val.Fields[1].Validations[2].type = "FieldValidationRegex"

\* the validations of ct and of nct, and of their item specs, agree length
\* by length and index by index
ValidationsAgree(ct, nct) ==
    \A i \in 1..Len(ct.Fields) :
        /\ Len(ct.Fields[i].Validations) = Len(nct.Fields[i].Validations)
        /\ \A j \in 1..Len(ct.Fields[i].Validations) :
               ValidationDraft(ct.Fields[i].Validations[j]) = nct.Fields[i].Validations[j]
        /\ IsSet(ct.Fields[i].Items) =>
              /\ Len(Get(ct.Fields[i].Items).Validations)
                    = Len(Get(nct.Fields[i].Items).Validations)
              /\ \A j \in 1..Len(Get(ct.Fields[i].Items).Validations) :
                     ValidationDraft(Get(ct.Fields[i].Items).Validations[j])
                        = Get(nct.Fields[i].Items).Validations[j]

\* the validations of a field of nct are those that the field of ct drafts
\* to, but for two different rules that have changed places
ValidationsSwapped(ct, nct) ==
    /\ Len(ct.Fields) = Len(nct.Fields)
    /\ \E i \in 1..Len(ct.Fields) :
          LET d == DraftValidations(ct.Fields[i].Validations)
              r == nct.Fields[i].Validations
          IN  /\ Len(d) = Len(r)
              /\ \E j, k \in 1..Len(d) : j < k /\ d[j] # d[k] /\ r = Swap(d, j, k)

\* C14: the comparison answers true only when the validations of every
\* field (and of its item spec) have the length of the remote ones and the
\* rule drafted at each index equals the remote rule at that index; when the
\* remote validations are the desired ones with two different rules swapped,
\* it answers false.
C14_ValidationsPositional ==
    (last.op = "Equal") =>
        /\ last.val = TRUE => ValidationsAgree(c, n)
        /\ ValidationsSwapped(c, n) => last.val = FALSE

\* Equal has answered false for a configuration that differs from the remote
\* model by the order of two validations of its field only
C14_Witness ==
    /\ last.op = "Equal"
    /\ last.val = FALSE
    /\ Len(c.Fields) = 1
    /\ ValidationsSwapped(c, n)
    /\ ContentTypeEqual(c, [n EXCEPT !.Fields[1].Validations =
                                          DraftValidations(c.Fields[1].Validations)])

(***************************************************************************)
(* Properties of the editor-interface comparison (SpecEI).                 *)
(***************************************************************************)
\* the control entry carries a widget id, a widget namespace or settings
CarriesBinding(t) == IsSet(t.WidgetID) \/ IsSet(t.WidgetNameSpace) \/ IsSet(t.Settings)

\* the control declared by field f and the control entry t are equal
SameBinding(f, t) ==
    /\ t.FieldID = ValueOf(f.Id)
    /\ t.WidgetID = Some(ValueOf(Get(f.Control).WidgetId))
    /\ t.WidgetNameSpace = Some(ValueOf(Get(f.Control).WidgetNamespace))
    /\ IF IsSet(Get(f.Control).Settings)
       THEN t.Settings = Some(SettingsDraft(Get(Get(f.Control).Settings)))
       ELSE ~IsSet(t.Settings)

\* the declared widget s and the sidebar entry t agree; the settings agree
\* when the declared text decodes to the map of the entry (none being empty)
SameWidget(s, t) ==
    /\ t.WidgetID = ValueOf(s.WidgetId)
    /\ t.WidgetNameSpace = ValueOf(s.WidgetNamespace)
    /\ t.Disabled = ValueOf(s.Disabled)
    /\ (IF IsSet(t.Settings) THEN Get(t.Settings) ELSE EmptyMap)
          = Unmarshal(s.Settings, EmptyMap, TRUE)

ExpectedEqualEditorInterface(ct, ei) ==
    /\ Cardinality({i \in 1..Len(ct.Fields) : IsSet(ct.Fields[i].Control)})
          = Cardinality({i \in 1..Len(ei.Controls) : CarriesBinding(ei.Controls[i])})
    /\ \A i \in 1..Len(ct.Fields) :
          IsSet(ct.Fields[i].Control) =>
             \E k \in 1..Len(ei.Controls) : SameBinding(ct.Fields[i], ei.Controls[k])
    /\ Len(ct.Sidebar) = Len(ei.SideBar)
    /\ \A i \in 1..Len(ct.Sidebar) : SameWidget(ct.Sidebar[i], ei.SideBar[i])

\* C15: EqualEditorInterface answers true exactly when as many fields
\* declare a control as control entries carry a widget id, a namespace or
\* settings, every such field has an entry of its id, at any position, with
\* equal widget id, namespace and settings, and the sidebars have the same
\* length and agree index by index; entries that carry none of the three
\* play no part.
C15_EqualEditorInterfaceExact ==
    (last.op = "EqualEditorInterface") =>
        /\ last.status = "ok"
        /\ last.val = ExpectedEqualEditorInterface(c, Get(e))

\* C16: an Import without an editor interface succeeds (for a valid remote
\* model) and gives VersionControls 0, an empty sidebar and no control on
\* any field; an Import with an editor interface gives its version as
\* VersionControls and imports every sidebar widget whose entry carries no
\* settings with the settings text "{}".
C16_ImportEditorInterface ==
    (last.op = "Import") =>
        IF ~IsSet(e)
        THEN /\ ValidRemote(n) => last.status = "ok"
             /\ c.VersionControls = Int64Value(0)
             /\ last.status = "ok" =>
                   /\ c.Sidebar = <<>>
                   /\ \A i \in 1..Len(c.Fields) : ~IsSet(c.Fields[i].Control)
        ELSE /\ c.VersionControls = Int64Value(Get(e).Sys.Version)
             /\ last.status = "ok" =>
                   /\ Len(c.Sidebar) = Len(Get(e).SideBar)
                   /\ \A i \in 1..Len(c.Sidebar) :
                         ~IsSet(Get(e).SideBar[i].Settings) =>
                            c.Sidebar[i].Settings = StringValue("{}")

\* an editor interface of version 2 with two widgets, the second without
\* settings, has been imported
C16_Witness ==
    /\ last.op = "Import"
    /\ last.status = "ok"
    /\ IsSet(e)
    /\ Len(Get(e).SideBar) = 2
    /\ IsSet(Get(e).SideBar[1].Settings)
    /\ ~IsSet(Get(e).SideBar[2].Settings)
    /\ c.VersionControls = Int64Value(2)
    /\ c.Sidebar[1].Settings = StringValue("{\"a\":\"x\"}")
    /\ c.Sidebar[2].Settings = StringValue("{}")

\* C17: when the editor interface is the one that DraftEditorInterface
\* builds from the configuration, EqualEditorInterface answers true for the
\* same configuration, whatever its sidebar widgets are (disabled, with empty
\* settings, or two of the same widget id).
C17_DraftedEditorInterfaceEqual ==
    (last.op = "EqualEditorInterface" /\ e = Some(DraftEditorInterface(c, Get(e)))) =>
        /\ last.status = "ok"
        /\ last.val = TRUE

\* the field ids of the configuration are unique
UniqueFieldIds(ct) ==
    \A i, j \in 1..Len(ct.Fields) : ct.Fields[i].Id = ct.Fields[j].Id => i = j

\* C18: when the remote model is the payload that Draft has built from the
\* configuration, whose field ids are unique, Equal answers true for the same
\* configuration; also for fields with an item spec and a type other than
\* array, and for fields with no link type or default value.
C18_DraftedContentTypeEqual ==
    (origin = "written" /\ last.op = "Equal" /\ UniqueFieldIds(c)) => last.val = TRUE

=============================================================================
